---- MODULE Spec2Model ----
(***************************************************************************)
(* lpio-client: the long-polling client state machine of                   *)
(* src/unnamed/part_000 (class Client).                                    *)
(*                                                                         *)
(* Every handler of the client is one atomic action (JavaScript runs a     *)
(* handler to completion).  The handlers are written as operators from a   *)
(* state record to a state record, so that a handler that calls other      *)
(* methods (open, reopen, onDisconnected ...) is the composition of their  *)
(* operators, in the order of the source.                                  *)
(*                                                                         *)
(* The collaborators that are not part of the file are modelled by what    *)
(* the client relies on:                                                   *)
(*   request()   - one channel per call; when the exchange ends it calls   *)
(*                 onClose and then onSuccess or onError; close() on the   *)
(*                 handle aborts: onClose runs synchronously and neither   *)
(*                 onSuccess nor onError runs afterwards.                  *)
(*   Multiplexer - a FIFO of pending messages: add/get/reset/start/stop,   *)
(*                 and, while started and not empty, a drain notification  *)
(*                 that hands the whole queue to onDrain and empties it.   *)
(*   Backoff     - duration() = min(ms * factor^attempts++, max), reset(). *)
(*                                                                         *)
(* Listeners are part of the environment.  Under Spec and FairSpec they    *)
(* return normally; under ThrowSpec some of them throw (the field thrown   *)
(* of the state record is the exception in flight); under ReentrantSpec    *)
(* some of them call connect() or disconnect() from inside the emit.       *)
(*                                                                         *)
(* The second part of the module (names starting with V) is the client of  *)
(* src/src/Client.js, which validates the identity in connect() and the    *)
(* data and recipient in send(); VariantSpec is its state machine.         *)
(***************************************************************************)
EXTENDS Integers, Sequences, FiniteSets, TLC

\* ------------------------------------------------------------------ bounds
MaxSends == 1
MaxPending == 1

\* ------------------------------------------------- configuration constants
BackoffMs == 1
BackoffFactor == 2
BackoffMax == 2

NoId == 0
SessionId == 1
NoDelay == 0

Uids == 1..MaxSends

Min(a, b) == IF a < b THEN a ELSE b

Sat(n) == Min(n + 1, 2)

\* the number of acks in a batch, and in a sequence of batches
RECURSIVE Acks(_)
Acks(ms) ==
  IF ms = <<>> THEN 0
  ELSE (IF Head(ms).type = "ack" THEN 1 ELSE 0) + Acks(Tail(ms))

RECURSIVE AcksIn(_)
AcksIn(q) == IF q = <<>> THEN 0 ELSE Acks(Head(q)) + AcksIn(Tail(q))

RECURSIVE Pow(_, _)
Pow(b, e) == IF e = 0 THEN 1 ELSE b * Pow(b, e - 1)

\* backo: Backoff.prototype.duration, without the attempts++ side effect
Duration(n) == Min(BackoffMs * Pow(BackoffFactor, n), BackoffMax)

\* the first attempt whose delay is the maximum: the delay of every later
\* attempt is the same, so the attempts counter need not count beyond it
MaxAttempts ==
  CHOOSE n \in 0..16 :
    /\ Duration(n) >= BackoffMax
    /\ \A m \in 0..(n - 1) : Duration(m) < BackoffMax

\* ---------------------------------------------------------------- messages
Msg(t, i, d) == [type |-> t, id |-> i, data |-> d]

AckMsg(i) == Msg("ack", i, FALSE)

\* what the application may pass to send(): type omitted is "", data is
\* whether options.data is truthy
SendOptions ==
  { [type |-> t, data |-> d] : t \in {"", "data"}, d \in BOOLEAN }

\* what the server may put into a response
InboundMessages ==
  { AckMsg(i) : i \in Uids }
    \cup { Msg("data", 1, d) : d \in BOOLEAN }
    \cup { Msg("custom", 2, FALSE) }

IsAck(m) == m.type = "ack"

\* the ids of the messages of a batch that are not acks, in array order
RECURSIVE NonAcks(_)
NonAcks(ms) ==
  IF ms = <<>> THEN <<>>
  ELSE (IF IsAck(Head(ms)) THEN <<>> ELSE <<Head(ms).id>>)
         \o NonAcks(Tail(ms))

\* the first and the second message of a response of two
FirstMessages == { AckMsg(1), Msg("data", 1, TRUE) }

SecondMessages == { AckMsg(1), Msg("custom", 2, FALSE) }

\* res: set is res.set.id (NoId when absent), messages has up to two messages
Responses ==
  { [set |-> i, messages |-> ms] :
      i \in {NoId, SessionId},
      ms \in {<<>>} \cup { <<m>> : m \in InboundMessages }
                    \cup { <<m1, m2>> : m1 \in FirstMessages,
                                         m2 \in SecondMessages } }

NoRes == [set |-> NoId, messages |-> <<>>]

\* what an action records of itself: its name, the status of a failure (the
\* message id of an ack timer), the ids of the non-ack messages of a response,
\* and of a send() whether the message passed validation and whether a
\* callback was given
Op(n, st, r, v) ==
  [name |-> n, status |-> st, nonAcks |-> NonAcks(r.messages), valid |-> v,
   cb |-> FALSE]

VARIABLES
  id, connected, disabled, loading, reopening, request,
  channels, queue, muxStarted, attempts, reopenTimers,
  nextUid, listening, ackTimers, deferred, cbOk, cbErr,
  valTimers, valCalls, invalidCb,
  emitted, lastDelay, op, tracing,
  handed, fate, registered, sinceSuccess,
  throwers, reaction, lastConn, altOk,
  options, drainSubs, timers

vars ==
  << id, connected, disabled, loading, reopening, request,
     channels, queue, muxStarted, attempts, reopenTimers,
     nextUid, listening, ackTimers, deferred, cbOk, cbErr,
     valTimers, valCalls, invalidCb,
     emitted, lastDelay, op, tracing,
     handed, fate, registered, sinceSuccess,
     throwers, reaction, lastConn, altOk,
     options, drainSubs, timers >>

\* the state as a record, the argument and result of every handler
Cur ==
  [ id |-> id, connected |-> connected, disabled |-> disabled,
    loading |-> loading, reopening |-> reopening, request |-> request,
    channels |-> channels, queue |-> queue, muxStarted |-> muxStarted,
    attempts |-> attempts, reopenTimers |-> reopenTimers,
    nextUid |-> nextUid, listening |-> listening, ackTimers |-> ackTimers,
    deferred |-> deferred, cbOk |-> cbOk, cbErr |-> cbErr,
    valTimers |-> valTimers, valCalls |-> valCalls, invalidCb |-> invalidCb,
    emitted |-> emitted, lastDelay |-> lastDelay,
    handed |-> handed, fate |-> fate, registered |-> registered,
    sinceSuccess |-> sinceSuccess,
    lastConn |-> lastConn, altOk |-> altOk, thrown |-> FALSE ]

\* a handler starts with an empty event trace and no computed delay; thrown
\* says that an exception is unwinding the handler: what follows is skipped
Start == [Cur EXCEPT !.emitted = <<>>, !.lastDelay = NoDelay]

\* The handler's result becomes the next state. emitted, lastDelay and op
\* describe the handler that ran last, and handed, fate and sinceSuccess
\* what happened to the messages and the backoff so far; no handler reads
\* them, and they are kept only while tracing.
NoOp == Op("init", 0, NoRes, TRUE)

Commit(s, o) ==
  /\ id' = s.id /\ connected' = s.connected /\ disabled' = s.disabled
  /\ loading' = s.loading /\ reopening' = s.reopening
  /\ request' = s.request /\ channels' = s.channels /\ queue' = s.queue
  /\ muxStarted' = s.muxStarted /\ attempts' = s.attempts
  /\ reopenTimers' = s.reopenTimers /\ nextUid' = s.nextUid
  /\ listening' = s.listening /\ ackTimers' = s.ackTimers
  /\ deferred' = s.deferred /\ cbOk' = s.cbOk /\ cbErr' = s.cbErr
  /\ valTimers' = s.valTimers /\ valCalls' = s.valCalls
  /\ invalidCb' = s.invalidCb
  /\ emitted' = (IF tracing THEN s.emitted ELSE <<>>)
  /\ lastDelay' = (IF tracing THEN s.lastDelay ELSE NoDelay)
  /\ tracing' = tracing
  /\ handed' = (IF tracing THEN s.handed ELSE handed)
  /\ fate' = (IF tracing THEN s.fate ELSE fate)
  /\ sinceSuccess' = (IF tracing THEN s.sinceSuccess ELSE sinceSuccess)
  /\ registered' = s.registered
  /\ op' = (IF tracing THEN o ELSE NoOp)
  /\ lastConn' = s.lastConn /\ altOk' = s.altOk
  /\ UNCHANGED << throwers, reaction, options, drainSubs, timers >>

\* ------------------------------------------------------------ Multiplexer
MuxAdd(s, ms) == IF s.thrown THEN s ELSE [s EXCEPT !.queue = @ \o ms]

MuxReset(s) == IF s.thrown THEN s ELSE [s EXCEPT !.queue = <<>>]

MuxStart(s) == IF s.thrown THEN s ELSE [s EXCEPT !.muxStarted = TRUE]

MuxStop(s) == IF s.thrown THEN s ELSE [s EXCEPT !.muxStarted = FALSE]

\* ---------------------------------------------------------------- history
\* f with the value v at the id of every message of ms that send() made
RECURSIVE Mark(_, _, _)
Mark(f, ms, v) ==
  IF ms = <<>> THEN f
  ELSE LET m == Head(ms)
       IN Mark(IF IsAck(m) THEN f ELSE [f EXCEPT ![m.id] = v], Tail(ms), v)

RemoveAt(q, i) == SubSeq(q, 1, i - 1) \o SubSeq(q, i + 1, Len(q))

\* ------------------------------------------------------------------ Client
\* the application's handlers: the events of the output channel, and what a
\* handler may do when it runs besides returning: call connect() or
\* disconnect() on the client, or throw ("callback" is a callback of send())
OutEvents ==
  { "success", "connected", "set:id", "message", "data", "error",
    "unauthorized", "disconnected" }

NoReaction == [e \in OutEvents |-> "none"]

React(e, r) == [NoReaction EXCEPT ![e] = r]

\* the connectivity events so far: lastConn is the last one emitted
\* ("disconnected" before the first), and altOk says that each one differed
\* from the one before it and found the flag and the session id as it
\* announces them
Track(s, e) ==
  IF e \notin {"connected", "disconnected"} THEN s
  ELSE [s EXCEPT !.lastConn = e,
                 !.altOk = /\ @
                           /\ e # s.lastConn
                           /\ e = "connected" => s.connected /\ s.id # NoId
                           /\ e = "disconnected" =>
                                ~s.connected /\ s.id = NoId]

RECURSIVE Connect(_), Disconnect(_)

\* this.out.emit(e): the handler of e runs, synchronously
Deliver(s, e) ==
  LET s1 == Track([s EXCEPT !.emitted = Append(@, e)], e)
      s2 == CASE reaction[e] = "connect" -> Connect(s1)
              [] reaction[e] = "disconnect" -> Disconnect(s1)
              [] OTHER -> s1
  IN IF e \in throwers THEN [s2 EXCEPT !.thrown = TRUE] ELSE s2

\* the catch of emit(): this.out.emit('error', err), itself not guarded
Caught(s) ==
  IF s.thrown THEN Deliver([s EXCEPT !.thrown = FALSE], "error") ELSE s

Emit(s, e) == IF s.thrown THEN s ELSE Caught(Deliver(s, e))

OnDisconnected(s) ==
  IF s.thrown \/ ~s.connected THEN s
  ELSE Emit([MuxStop(s) EXCEPT !.id = NoId, !.connected = FALSE],
            "disconnected")

OnConnected_NoGuard(s) ==
  IF s.thrown \/ s.id = NoId THEN s
  ELSE Emit([s EXCEPT !.connected = TRUE], "connected")

OnConnected(s) ==
  IF s.thrown \/ s.connected \/ s.id = NoId THEN s
  ELSE Emit([s EXCEPT !.connected = TRUE], "connected")

OnRequestClose(s) ==
  IF s.thrown THEN s ELSE [s EXCEPT !.request = FALSE, !.loading = FALSE]

\* request.close() on the handle this.request: the channel opened last
RequestClose(s) ==
  LET n == Len(s.channels)
  IN IF s.thrown \/ n = 0 THEN s
     ELSE OnRequestClose(
            [s EXCEPT !.channels = SubSeq(@, 1, n - 1),
                      !.fate = Mark(@, s.channels[n], "aborted")])

Open_NoLoadingGuard(s, ms) ==
  IF s.thrown THEN s
  ELSE IF s.disabled THEN MuxAdd(s, ms)
  ELSE [s EXCEPT !.loading = TRUE, !.request = TRUE,
                 !.channels = Append(@, ms),
                 !.handed = Mark(@, ms, TRUE)]

Open_NoDisabledGuard(s, ms) ==
  IF s.thrown THEN s
  ELSE IF s.loading THEN MuxAdd(s, ms)
  ELSE [s EXCEPT !.loading = TRUE, !.request = TRUE,
                 !.channels = Append(@, ms),
                 !.handed = Mark(@, ms, TRUE)]

Open(s, ms) ==
  IF s.thrown THEN s
  ELSE IF s.disabled \/ s.loading THEN MuxAdd(s, ms)
  ELSE [s EXCEPT !.loading = TRUE, !.request = TRUE,
                 !.channels = Append(@, ms),
                 !.handed = Mark(@, ms, TRUE)]

Reopen_GiveUpAtMax(s) ==
  IF s.thrown \/ s.reopening THEN s
  ELSE LET d == Duration(s.attempts)
           s1 == MuxStop([s EXCEPT !.attempts = Min(@ + 1, MaxAttempts),
                                   !.lastDelay = d,
                                   !.sinceSuccess = FALSE,
                                   !.reopening = TRUE])
       IN IF d >= BackoffMax THEN OnDisconnected(s1)
          ELSE [s1 EXCEPT !.reopenTimers = @ + 1]

Reopen(s) ==
  IF s.thrown \/ s.reopening THEN s
  ELSE LET d == Duration(s.attempts)
           s1 == MuxStop([s EXCEPT !.attempts = Min(@ + 1, MaxAttempts),
                                   !.lastDelay = d,
                                   !.sinceSuccess = FALSE,
                                   !.reopening = TRUE])
           s2 == IF d >= BackoffMax THEN OnDisconnected(s1) ELSE s1
       IN IF s2.thrown THEN s2 ELSE [s2 EXCEPT !.reopenTimers = @ + 1]

Disconnect_AlwaysEmit(s) ==
  IF s.thrown THEN s
  ELSE LET s1 == [s EXCEPT !.disabled = TRUE]
           s2 == IF s1.request THEN RequestClose(s1) ELSE s1
       IN Emit([MuxStop(s2) EXCEPT !.id = NoId, !.connected = FALSE],
               "disconnected")

Disconnect(s) ==
  IF s.thrown THEN s
  ELSE LET s1 == [s EXCEPT !.disabled = TRUE]
           s2 == IF s1.request THEN RequestClose(s1) ELSE s1
       IN OnDisconnected(s2)

Connect(s) ==
  IF s.thrown \/ s.connected \/ s.loading THEN s
  ELSE Open([s EXCEPT !.disabled = FALSE], <<>>)

SubscribeAck_NoTimer(s, i) ==
  IF s.thrown THEN s
  ELSE
  [s EXCEPT !.listening = @ \cup {i}, !.registered = @ \cup {i}]

SubscribeAck(s, i) ==
  IF s.thrown THEN s
  ELSE
  [s EXCEPT !.listening = @ \cup {i}, !.ackTimers = @ \cup {i},
            !.registered = @ \cup {i}]

RECURSIVE SubscribeAll(_, _)
SubscribeAll(s, is) ==
  IF is = {} THEN s
  ELSE LET i == CHOOSE x \in is : TRUE
       IN SubscribeAll(SubscribeAck(s, i), is \ {i})

\* this.emit('success'): the application's handler, registered before any
\* send(), and then the listeners send() left with out.once('success'); a
\* handler that throws keeps the listeners after it from running
EmitSuccess(s) ==
  IF s.thrown THEN s
  ELSE LET s1 == Deliver(s, "success")
       IN IF s1.thrown THEN Caught(s1)
          ELSE SubscribeAll([s1 EXCEPT !.deferred = {}], s1.deferred)

\* this.in.emit('ack:<id>'): the once-listener onAck of subscribeAck, which
\* calls the callback of send() outside any try
OnAck(s, i) ==
  IF s.thrown \/ i \notin s.listening THEN s
  ELSE [s EXCEPT !.listening = @ \ {i}, !.ackTimers = @ \ {i},
                 !.cbOk = [@ EXCEPT ![i] = Sat(@)],
                 !.thrown = "callback" \in throwers]

OnAckTimeout_NoOff(s, i) ==
  [s EXCEPT !.ackTimers = @ \ {i},
            !.cbErr = [@ EXCEPT ![i] = Sat(@)]]

\* the timeout callback of subscribeAck
OnAckTimeout(s, i) ==
  [s EXCEPT !.ackTimers = @ \ {i}, !.listening = @ \ {i},
            !.cbErr = [@ EXCEPT ![i] = Sat(@)]]

OnMessage_AckTheAck(s, m) ==
  LET s1 == Emit(s, "message")
  IN IF s1.thrown THEN s1
     ELSE LET s2 == IF m.type = "ack" THEN OnAck(s1, m.id)
                    ELSE IF m.type = "data" /\ m.data THEN Emit(s1, "data")
                    ELSE s1
          IN MuxAdd(s2, <<AckMsg(m.id)>>)

OnMessage(s, m) ==
  LET s1 == Emit(s, "message")
  IN IF s1.thrown THEN s1
     ELSE IF m.type = "ack" THEN OnAck(s1, m.id)
     ELSE LET s2 == IF m.type = "data" /\ m.data THEN Emit(s1, "data")
                    ELSE s1
          IN MuxAdd(s2, <<AckMsg(m.id)>>)

RECURSIVE OnMessages(_, _)
OnMessages(s, ms) ==
  IF ms = <<>> THEN s ELSE OnMessages(OnMessage(s, Head(ms)), Tail(ms))

OnRequestSuccess_SetIdFirst(s, res) ==
  LET s1 == EmitSuccess(s)
      s2 == IF s1.thrown THEN s1
            ELSE [s1 EXCEPT !.attempts = 0, !.sinceSuccess = TRUE]
      s3 == IF res.set # NoId /\ ~s2.thrown
            THEN OnConnected(Emit([s2 EXCEPT !.id = res.set], "set:id"))
            ELSE s2
      s4 == OnConnected(s3)
      s5 == OnMessages(s4, res.messages)
      ms == s5.queue
  IN Open(MuxStart(MuxReset(s5)), ms)

OnRequestSuccess_NoBackoffReset(s, res) ==
  LET s1 == EmitSuccess(s)
      s2 == IF s1.thrown THEN s1 ELSE [s1 EXCEPT !.sinceSuccess = TRUE]
      s3 == IF res.set # NoId /\ ~s2.thrown
            THEN Emit(OnConnected([s2 EXCEPT !.id = res.set]), "set:id")
            ELSE s2
      s4 == OnConnected(s3)
      s5 == OnMessages(s4, res.messages)
      ms == s5.queue
  IN Open(MuxStart(MuxReset(s5)), ms)

OnRequestSuccess_NoMuxReset(s, res) ==
  LET s1 == EmitSuccess(s)
      s2 == IF s1.thrown THEN s1
            ELSE [s1 EXCEPT !.attempts = 0, !.sinceSuccess = TRUE]
      s3 == IF res.set # NoId /\ ~s2.thrown
            THEN Emit(OnConnected([s2 EXCEPT !.id = res.set]), "set:id")
            ELSE s2
      s4 == OnConnected(s3)
      s5 == OnMessages(s4, res.messages)
      ms == s5.queue
  IN Open(MuxStart(s5), ms)

OnRequestSuccess(s, res) ==
  LET s1 == EmitSuccess(s)
      s2 == IF s1.thrown THEN s1
            ELSE [s1 EXCEPT !.attempts = 0, !.sinceSuccess = TRUE]
      s3 == IF res.set # NoId /\ ~s2.thrown
            THEN Emit(OnConnected([s2 EXCEPT !.id = res.set]), "set:id")
            ELSE s2
      s4 == OnConnected(s3)
      s5 == OnMessages(s4, res.messages)
      ms == s5.queue
  IN Open(MuxStart(MuxReset(s5)), ms)

OnUnauthorized_NoDisconnect(s) == Emit(s, "unauthorized")

OnUnauthorized(s) == Disconnect(Emit(s, "unauthorized"))

OnRequestError(s, status) ==
  LET s1 == Emit(s, "error")
  IN IF status = 401 THEN OnUnauthorized(s1) ELSE Reopen(s1)

OnError_NoReAdd(s, ms, status) == OnRequestError(s, status)

OnError_ReAddOnlyRetry(s, ms, status) ==
  IF status = 401 THEN OnRequestError(s, status)
  ELSE OnRequestError(MuxAdd(s, ms), status)

\* the onError closure of open(): messages is the batch of that request
OnError(s, ms, status) == OnRequestError(MuxAdd(s, ms), status)

OnReopenTimer(s) ==
  Open([s EXCEPT !.reopening = FALSE, !.reopenTimers = @ - 1], <<>>)

OnDrain_NoClose(s, ms) == Open(s, ms)

OnDrain(s, ms) ==
  Open(IF s.request THEN RequestClose(s) ELSE s, ms)

Send_NoDefaultType(s, o, cb) ==
  LET type == IF o.type = "" THEN "data" ELSE o.type
  IN IF o.type = "data" /\ ~o.data
     THEN IF cb THEN [s EXCEPT !.valTimers = @ + 1, !.invalidCb = @ + 1]
          ELSE s
     ELSE LET i == s.nextUid + 1
              s1 == MuxAdd([s EXCEPT !.nextUid = i], <<Msg(type, i, o.data)>>)
          IN IF ~cb THEN s1
             ELSE IF ~s1.connected \/ s1.reopening
                  THEN [s1 EXCEPT !.deferred = @ \cup {i}]
                  ELSE SubscribeAck(s1, i)

Send_NoDeferral(s, o, cb) ==
  LET type == IF o.type = "" THEN "data" ELSE o.type
  IN IF type = "data" /\ ~o.data
     THEN IF cb THEN [s EXCEPT !.valTimers = @ + 1, !.invalidCb = @ + 1]
          ELSE s
     ELSE LET i == s.nextUid + 1
              s1 == MuxAdd([s EXCEPT !.nextUid = i], <<Msg(type, i, o.data)>>)
          IN IF ~cb THEN s1 ELSE SubscribeAck(s1, i)

Send(s, o, cb) ==
  LET type == IF o.type = "" THEN "data" ELSE o.type
  IN IF type = "data" /\ ~o.data
     THEN IF cb THEN [s EXCEPT !.valTimers = @ + 1, !.invalidCb = @ + 1]
          ELSE s
     ELSE LET i == s.nextUid + 1
              s1 == MuxAdd([s EXCEPT !.nextUid = i], <<Msg(type, i, o.data)>>)
          IN IF ~cb THEN s1
             ELSE IF ~s1.connected \/ s1.reopening
                  THEN [s1 EXCEPT !.deferred = @ \cup {i}]
                  ELSE SubscribeAck(s1, i)

SendValid(o) == ~((o.type = "" \/ o.type = "data") /\ ~o.data)

\* ------------------------------------------------------------------ Init
Constructed ==
  /\ id \in {NoId, SessionId}
  /\ connected = FALSE /\ disabled = TRUE
  /\ loading = FALSE /\ reopening = FALSE /\ request = FALSE
  /\ channels = <<>> /\ queue = <<>> /\ muxStarted = FALSE
  /\ attempts = 0 /\ reopenTimers = 0
  /\ nextUid = 0 /\ listening = {} /\ ackTimers = {} /\ deferred = {}
  /\ cbOk = [i \in Uids |-> 0] /\ cbErr = [i \in Uids |-> 0]
  /\ valTimers = 0 /\ valCalls = 0 /\ invalidCb = 0
  /\ emitted = <<>> /\ lastDelay = NoDelay
  /\ op = NoOp
  /\ handed = [i \in Uids |-> FALSE] /\ fate = [i \in Uids |-> "pending"]
  /\ registered = {} /\ sinceSuccess = FALSE
  /\ lastConn = "disconnected" /\ altOk = TRUE
  /\ options = [id |-> TRUE, user |-> TRUE]
  /\ drainSubs = 1 /\ timers = <<>>

\* the application's handlers return without calling the client
Inert == throwers = {} /\ reaction = NoReaction

Init == Constructed /\ Inert /\ tracing = TRUE

InitQuiet == Constructed /\ Inert /\ tracing = FALSE

\* some handlers, or the callbacks of send(), throw
ThrowConfigs ==
  { {"callback"}, {"message"}, {"data", "error"}, {"success", "error"} }

InitThrow ==
  /\ Constructed /\ tracing = TRUE
  /\ throwers \in ThrowConfigs /\ reaction = NoReaction

\* some handlers call connect() or disconnect() on the client
ReactionConfigs ==
  { React("connected", "disconnect"), React("disconnected", "connect"),
    React("success", "disconnect"), React("set:id", "disconnect"),
    React("error", "disconnect"), React("message", "disconnect"),
    [React("connected", "disconnect") EXCEPT !["disconnected"] = "connect"] }

InitReentrant ==
  /\ Constructed /\ tracing = FALSE
  /\ throwers = {} /\ reaction \in ReactionConfigs

\* --------------------------------------------------------------- actions
DoConnect == Commit(Connect(Start), Op("connect", 0, NoRes, TRUE))

DoDisconnect == Commit(Disconnect(Start), Op("disconnect", 0, NoRes, TRUE))

DoSend ==
  \E o \in SendOptions, cb \in BOOLEAN :
    /\ nextUid + invalidCb < MaxSends
    /\ Commit(Send(Start, o, cb),
              [Op("send", 0, NoRes, SendValid(o)) EXCEPT !.cb = cb])

\* the zero-delay timer send() sets for the callback of an invalid message
DoValidationTimer ==
  /\ valTimers > 0
  /\ Commit([Start EXCEPT !.valTimers = @ - 1, !.valCalls = @ + 1],
            Op("validationTimer", 0, NoRes, TRUE))

DoAckTimeout ==
  \E i \in ackTimers :
    Commit(OnAckTimeout(Start, i), Op("ackTimeout", i, NoRes, TRUE))

DoReopenTimer ==
  /\ reopenTimers > 0
  /\ Commit(OnReopenTimer(Start), Op("reopenTimer", 0, NoRes, TRUE))

\* the Multiplexer flushes: it hands its queue to onDrain
DoDrain ==
  /\ muxStarted
  /\ queue # <<>>
  /\ Commit(OnDrain(MuxReset(Start), queue), Op("drain", 0, NoRes, TRUE))

\* channel k ends with a response: onClose, then onSuccess(res)
DoRequestSuccess ==
  \E k \in 1..Len(channels), res \in Responses :
    /\ Acks(queue) + AcksIn(channels) + Len(NonAcks(res.messages)) <= MaxPending
    /\ LET s0 == [Start EXCEPT !.channels = RemoveAt(@, k),
                               !.fate = Mark(@, channels[k], "delivered")]
       IN Commit(OnRequestSuccess(OnRequestClose(s0), res),
                 Op("requestSuccess", 200, res, TRUE))

\* channel k ends with a transport error: onClose, then onError(err)
DoRequestError ==
  \E k \in 1..Len(channels), status \in {401, 500} :
    LET s0 == [Start EXCEPT !.channels = RemoveAt(@, k)]
    IN Commit(OnError(OnRequestClose(s0), channels[k], status),
              Op("requestError", status, NoRes, TRUE))

Next ==
  \/ DoConnect
  \/ DoDisconnect
  \/ DoSend
  \/ DoValidationTimer
  \/ DoAckTimeout
  \/ DoReopenTimer
  \/ DoDrain
  \/ DoRequestSuccess
  \/ DoRequestError

Spec == Init /\ [][Next]_vars

\* The same client without the trace of the last handler, and with the
\* fairness of timers: a timer that was set and not cleared fires.
FairSpec ==
  /\ InitQuiet
  /\ [][Next]_vars
  /\ WF_vars(DoValidationTimer)
  /\ WF_vars(DoAckTimeout)
  /\ WF_vars(DoReopenTimer)

\* The client with handlers that throw, and with handlers that call it back.
ThrowSpec == InitThrow /\ [][Next]_vars

ReentrantSpec == InitReentrant /\ [][Next]_vars

\* ----------------------------------------------------------------- variant
\* src/src/Client.js: the client that validates its identity in connect()
\* and sends directed ('user') messages. It has no session id of its own
\* (options.id is configuration), no reopening flag and no Multiplexer
\* start/stop; its reopen timers carry the batch of the failed request.
\* Its listeners return normally.
DisconnectedAfter == 1

MaxTimers == 1

VMaxAttempts == DisconnectedAfter + 1

VMsg(t, i, d, r) == [type |-> t, id |-> i, data |-> d, recipient |-> r]

VAckMsg(i) == VMsg("ack", i, FALSE, TRUE)

\* what the application may pass to send(): type omitted is "", data and
\* recipient say whether the property is truthy
VOptions(t, d, r) == [type |-> t, data |-> d, recipient |-> r]

VSendOptions ==
  { VOptions("user", TRUE, TRUE), VOptions("user", TRUE, FALSE),
    VOptions("", FALSE, FALSE) }

\* what the server may put into a response: nothing, an ack, a message, or a
\* message and an ack
VResponses ==
  { [set |-> NoId, messages |-> ms] :
      ms \in {<<>>, <<Msg("data", 1, TRUE)>>,
              <<Msg("data", 1, TRUE), AckMsg(1)>>}
                \cup { <<AckMsg(i)>> : i \in Uids } }

VCur ==
  [ connected |-> connected, disabled |-> disabled, loading |-> loading,
    request |-> request, channels |-> channels, queue |-> queue,
    attempts |-> attempts, timers |-> timers, drainSubs |-> drainSubs,
    nextUid |-> nextUid, listening |-> listening, ackTimers |-> ackTimers,
    cbOk |-> cbOk, cbErr |-> cbErr, valTimers |-> valTimers,
    valCalls |-> valCalls, invalidCb |-> invalidCb, emitted |-> <<>> ]

VCommit(s, o) ==
  /\ connected' = s.connected /\ disabled' = s.disabled
  /\ loading' = s.loading /\ request' = s.request
  /\ channels' = s.channels /\ queue' = s.queue
  /\ attempts' = s.attempts /\ timers' = s.timers
  /\ drainSubs' = s.drainSubs /\ nextUid' = s.nextUid
  /\ listening' = s.listening /\ ackTimers' = s.ackTimers
  /\ cbOk' = s.cbOk /\ cbErr' = s.cbErr
  /\ valTimers' = s.valTimers /\ valCalls' = s.valCalls
  /\ invalidCb' = s.invalidCb
  /\ emitted' = s.emitted /\ op' = o
  /\ UNCHANGED << id, reopening, muxStarted, reopenTimers, deferred,
                  lastDelay, tracing, handed, fate, registered,
                  sinceSuccess, throwers, reaction, lastConn, altOk,
                  options >>

\* this.emit(e) of the Emitter the client extends
VEmit(s, e) == [s EXCEPT !.emitted = Append(@, e)]

VOnRequestClose(s) == [s EXCEPT !.request = FALSE, !.loading = FALSE]

\* request.abort() on the handle this.request: the channel opened last
VRequestAbort(s) ==
  LET n == Len(s.channels)
  IN IF n = 0 THEN s
     ELSE VOnRequestClose([s EXCEPT !.channels = SubSeq(@, 1, n - 1)])

VOpen(s, ms) ==
  IF s.disabled \/ s.loading THEN [s EXCEPT !.queue = @ \o ms]
  ELSE [s EXCEPT !.loading = TRUE, !.request = TRUE,
                 !.channels = Append(@, ms)]

VConnect_NoIdentityCheck(s) ==
  IF s.connected \/ s.loading THEN s
  ELSE VOpen([s EXCEPT !.disabled = FALSE, !.drainSubs = Sat(@)], <<>>)

VConnect(s) ==
  IF s.connected \/ s.loading THEN s
  ELSE IF ~options.id \/ ~options.user THEN VEmit(s, "error")
  ELSE VOpen([s EXCEPT !.disabled = FALSE, !.drainSubs = Sat(@)], <<>>)

VDisconnect(s) ==
  LET s1 == [s EXCEPT !.disabled = TRUE, !.connected = FALSE,
                      !.drainSubs = 0]
      s2 == IF s1.request THEN VRequestAbort(s1) ELSE s1
  IN IF s.connected THEN VEmit(s2, "disconnected") ELSE s2

VSend(s, o) ==
  IF o.type = "user" /\ (~o.data \/ ~o.recipient)
  THEN [s EXCEPT !.valTimers = @ + 1, !.invalidCb = @ + 1]
  ELSE LET i == s.nextUid + 1
           type == IF o.type = "" THEN "user" ELSE o.type
       IN [s EXCEPT !.nextUid = i,
                    !.queue = Append(@, VMsg(type, i, o.data, o.recipient)),
                    !.listening = @ \cup {i},
                    !.ackTimers = @ \cup {i}]

VReopen(s, ms) ==
  [s EXCEPT !.attempts = Min(@ + 1, VMaxAttempts),
            !.timers = Append(@, ms)]

VOnAck(s, i) ==
  IF i \notin s.listening THEN s
  ELSE [s EXCEPT !.listening = @ \ {i}, !.ackTimers = @ \ {i},
                 !.cbOk = [@ EXCEPT ![i] = Sat(@)]]

VOnAckTimeout(s, i) ==
  [s EXCEPT !.ackTimers = @ \ {i}, !.listening = @ \ {i},
            !.cbErr = [@ EXCEPT ![i] = Sat(@)]]

VOnMessage(s, m) ==
  LET s1 == VEmit(s, "message")
  IN IF m.type = "ack" THEN VOnAck(s1, m.id)
     ELSE [VEmit(s1, "data") EXCEPT !.queue = Append(@, VAckMsg(m.id))]

RECURSIVE VOnMessages(_, _)
VOnMessages(s, ms) ==
  IF ms = <<>> THEN s ELSE VOnMessages(VOnMessage(s, Head(ms)), Tail(ms))

VOnRequestSuccess(s, res) ==
  LET s1 == [s EXCEPT !.attempts = 0]
      s2 == IF s1.connected THEN s1
            ELSE VEmit([s1 EXCEPT !.connected = TRUE], "connected")
  IN VOpen(VOnMessages(s2, res.messages), <<>>)

VOnRequestError(s, ms) ==
  LET s1 == VEmit(s, "error")
      s2 == IF s1.connected /\ s1.attempts > DisconnectedAfter
            THEN VEmit([s1 EXCEPT !.connected = FALSE], "disconnected")
            ELSE s1
  IN VReopen(s2, ms)

VOnDrain(s, ms) ==
  VOpen(IF s.request THEN VRequestAbort(s) ELSE s, ms)

\* the state after new Client(options): ping() of the constructor is not part
\* of the file and is taken to set up nothing the handlers read
\* the messages of a sequence of batches
RECURSIVE Flat(_)
Flat(q) == IF q = <<>> THEN <<>> ELSE Head(q) \o Flat(Tail(q))

\* the messages the client holds: in the Multiplexer, in requests in flight
\* and in reopen timers
VHeld == Len(queue) + Len(Flat(channels)) + Len(Flat(timers))

VConstructed ==
  /\ options \in [id : BOOLEAN, user : BOOLEAN]
  /\ connected = FALSE /\ disabled = TRUE
  /\ loading = FALSE /\ request = FALSE
  /\ channels = <<>> /\ queue = <<>> /\ attempts = 0
  /\ timers = <<>> /\ drainSubs = 0
  /\ nextUid = 0 /\ listening = {} /\ ackTimers = {}
  /\ cbOk = [i \in Uids |-> 0] /\ cbErr = [i \in Uids |-> 0]
  /\ valTimers = 0 /\ valCalls = 0 /\ invalidCb = 0
  /\ emitted = <<>> /\ op = NoOp

\* what the variant does not have
VUnused ==
  /\ id = NoId /\ reopening = FALSE /\ muxStarted = FALSE
  /\ reopenTimers = 0 /\ deferred = {} /\ lastDelay = NoDelay
  /\ handed = [i \in Uids |-> FALSE] /\ fate = [i \in Uids |-> "pending"]
  /\ registered = {} /\ sinceSuccess = FALSE
  /\ lastConn = "disconnected" /\ altOk = TRUE
  /\ tracing = TRUE

VInit == VConstructed /\ VUnused /\ Inert

VSendAccepted(o) == ~(o.type = "user" /\ (~o.data \/ ~o.recipient))

DoVConnect ==
  VCommit(VConnect(VCur), Op("connect", 0, NoRes, options.id /\ options.user))

DoVDisconnect == VCommit(VDisconnect(VCur), Op("disconnect", 0, NoRes, TRUE))

DoVSend ==
  \E o \in VSendOptions :
    /\ nextUid + invalidCb < MaxSends
    /\ VSendAccepted(o) => VHeld < MaxPending
    /\ VCommit(VSend(VCur, o), Op("send", 0, NoRes, VSendAccepted(o)))

\* the zero-delay timer send() sets for the callback of a refused message
DoVValidationTimer ==
  /\ valTimers > 0
  /\ VCommit([VCur EXCEPT !.valTimers = @ - 1, !.valCalls = @ + 1],
             Op("validationTimer", 0, NoRes, TRUE))

DoVAckTimeout ==
  \E i \in ackTimers :
    VCommit(VOnAckTimeout(VCur, i), Op("ackTimeout", 0, NoRes, TRUE))

\* a timer of reopen(messages) fires: open(messages)
DoVReopenTimer ==
  \E k \in 1..Len(timers) :
    VCommit(VOpen([VCur EXCEPT !.timers = RemoveAt(@, k)], timers[k]),
            Op("reopenTimer", 0, NoRes, TRUE))

\* the Multiplexer flushes: every listener connect() subscribed gets the queue
DoVDrain ==
  /\ drainSubs > 0
  /\ queue # <<>>
  /\ LET s1 == VOnDrain([VCur EXCEPT !.queue = <<>>], queue)
         s2 == IF drainSubs > 1 THEN VOnDrain(s1, queue) ELSE s1
     IN VCommit(s2, Op("drain", 0, NoRes, TRUE))

DoVRequestSuccess ==
  \E k \in 1..Len(channels), res \in VResponses :
    /\ \/ NonAcks(res.messages) = <<>>
       \/ VHeld + Len(NonAcks(res.messages)) <= MaxPending
    /\ LET s0 == [VCur EXCEPT !.channels = RemoveAt(@, k)]
       IN VCommit(VOnRequestSuccess(VOnRequestClose(s0), res),
                  Op("requestSuccess", 200, NoRes, TRUE))

DoVRequestError ==
  \E k \in 1..Len(channels) :
    /\ Len(timers) < MaxTimers
    /\ LET s0 == [VCur EXCEPT !.channels = RemoveAt(@, k)]
       IN VCommit(VOnRequestError(VOnRequestClose(s0), channels[k]),
                  Op("requestError", 500, NoRes, TRUE))

VNext ==
  \/ DoVConnect
  \/ DoVDisconnect
  \/ DoVSend
  \/ DoVValidationTimer
  \/ DoVAckTimeout
  \/ DoVReopenTimer
  \/ DoVDrain
  \/ DoVRequestSuccess
  \/ DoVRequestError

VariantSpec == VInit /\ [][VNext]_vars

\* ------------------------------------------------------------------ claims
InitialDelay == Min(BackoffMs, BackoffMax)

Has(q, e) == \E k \in 1..Len(q) : q[k] = e

First(q, e) == CHOOSE k \in 1..Len(q) : q[k] = e /\ \A j \in 1..(k - 1) : q[j] # e

\* how often message i of send() occurs in a batch, and in a sequence of them
RECURSIVE Count(_, _)
Count(ms, i) ==
  IF ms = <<>> THEN 0
  ELSE (IF ~IsAck(Head(ms)) /\ Head(ms).id = i THEN 1 ELSE 0)
         + Count(Tail(ms), i)

RECURSIVE CountIn(_, _)
CountIn(q, i) ==
  IF q = <<>> THEN 0 ELSE Count(Head(q), i) + CountIn(Tail(q), i)

AckBatch(is) == [k \in 1..Len(is) |-> AckMsg(is[k])]

Calls(i) == cbOk[i] + cbErr[i]

\* C1: at most one request is in flight at any time, and loading is true
\* while it is: open() never adds a channel to one that has not closed.
C1_AtMostOneInFlight ==
  /\ Len(channels) <= 1
  /\ Len(channels) = 1 => loading /\ request

\* a drain notification has put its batch into the one request in flight
C1_Witness ==
  /\ op.name = "drain"
  /\ Len(channels) = 1
  /\ channels[1] # <<>>

\* C3: the callback of a registered ack waiter is invoked exactly once: not
\* yet while the listener and the timer are both pending, and once (by the
\* ack without error, or by the timer with the error) when both are gone; a
\* late ack or a late timer therefore finds nothing to invoke.
C3_AckExactlyOnce ==
  \A i \in registered :
    \/ i \in listening /\ i \in ackTimers /\ Calls(i) = 0
    \/ i \notin listening /\ i \notin ackTimers /\ Calls(i) = 1

\* an ack arrived in a response after the waiter of message 1 had timed out
C3_Witness ==
  /\ op.name = "requestSuccess"
  /\ Has(emitted, "message")
  /\ op.nonAcks = <<>>
  /\ 1 \in registered
  /\ cbErr[1] = 1
  /\ cbOk[1] = 0

\* C4: in the events of one successful response 'connected' comes before
\* 'set:id', and a response that finds the client connected emits no
\* 'connected'.
C4_ConnectedBeforeSetId ==
  [][ op'.name = "requestSuccess" =>
        /\ (Has(emitted', "connected") /\ Has(emitted', "set:id")) =>
             First(emitted', "connected") < First(emitted', "set:id")
        /\ connected => ~Has(emitted', "connected") ]_vars

C4_Witness ==
  /\ op.name = "requestSuccess"
  /\ Has(emitted, "connected")
  /\ Has(emitted, "set:id")

\* C5: a successful response resets the backoff attempts, and the first
\* delay reopen() computes after a success is the initial delay.
C5_BackoffResetOnSuccess ==
  [][ /\ op'.name = "requestSuccess" => attempts' = 0
      /\ (sinceSuccess /\ lastDelay' # NoDelay) => lastDelay' = InitialDelay
    ]_vars

\* a transport failure after a delivered batch computed the initial delay
C5_Witness ==
  /\ op.name = "requestError"
  /\ op.status = 500
  /\ lastDelay = InitialDelay
  /\ \E i \in Uids : fate[i] = "delivered"

\* C6: a 401 failure emits 'unauthorized' once, then 'disconnected' exactly
\* if the client was connected, disables the client and schedules no reopen
\* timer; while disabled no request is in flight, and only connect() ends
\* that.
C6_Unauthorized ==
  [][ /\ (op'.name = "requestError" /\ op'.status = 401) =>
           /\ SelectSeq(emitted', LAMBDA e : e # "error")
                = <<"unauthorized">>
                    \o (IF connected THEN <<"disconnected">> ELSE <<>>)
           /\ disabled'
           /\ reopenTimers' = reopenTimers
           /\ lastDelay' = NoDelay
           /\ Len(channels') = 0
      /\ (disabled /\ op'.name # "connect") =>
           disabled' /\ Len(channels') = 0 ]_vars

C6_Witness ==
  /\ op.name = "requestError"
  /\ op.status = 401
  /\ Has(emitted, "disconnected")
  /\ disabled

\* C10: while disabled no request is in flight, and a step that starts and
\* ends disabled keeps the Multiplexer queue, adding to it exactly the
\* message of a valid send().
C10_DisabledIssuesNothing ==
  [][ /\ disabled' => Len(channels') = 0
      /\ (disabled /\ disabled') =>
           IF op'.name = "send" /\ op'.valid
           THEN /\ Len(queue') = Len(queue) + 1
                /\ SubSeq(queue', 1, Len(queue)) = queue
                /\ queue'[Len(queue')].id = nextUid'
                /\ ~IsAck(queue'[Len(queue')])
           ELSE queue' = queue ]_vars

\* a stale reopen timer fired while disabled, with messages waiting
C10_Witness ==
  /\ disabled
  /\ op.name = "reopenTimer"
  /\ queue # <<>>

\* a message of send() occurs in the batch of a request in flight
InBatch(q, i) == CountIn(q, i) > 0

C7_InvalidSend ==
  [][ /\ (op'.name = "send" /\ ~op'.valid) =>
           /\ queue' = queue
           /\ nextUid' = nextUid
           /\ listening' = listening
           /\ ackTimers' = ackTimers
           /\ deferred' = deferred
           /\ registered' = registered
           /\ valCalls' = valCalls
           /\ valTimers' = valTimers + (IF op'.cb THEN 1 ELSE 0)
      /\ valCalls' + valTimers' = invalidCb'
      /\ op'.name = "validationTimer" =>
           valCalls' = valCalls + 1 /\ valTimers' = valTimers - 1 ]_vars

\* the callback of an invalid send() has been invoked by its timer
C7_Witness ==
  /\ op.name = "validationTimer"
  /\ valCalls = 1
  /\ valTimers = 0
  /\ nextUid = 0
  /\ queue = <<>>

\* C8 as stated: whenever send() took a callback, the callback is invoked
\* in the end.
C8_AlwaysCalled ==
  \A i \in Uids : (i \in deferred \/ i \in registered) ~> (Calls(i) >= 1)

\* C8, amended: once the ack waiter of a message is registered, its callback
\* is invoked in the end (by the timer with the error if no ack arrives).
C8_RegisteredCalled ==
  \A i \in Uids : (i \in registered) ~> (Calls(i) = 1)

\* the waiter of message 1 was registered and timed out without any ack
C8_Witness ==
  /\ 1 \in registered
  /\ 1 \notin ackTimers
  /\ cbErr[1] = 1
  /\ cbOk[1] = 0

\* C9: a successful response opens the next request at once, with the
\* messages that were pending followed by an ack for every non-ack message
\* of the response, and leaves the Multiplexer empty.
C9_PipelinedAcks ==
  [][ (op'.name = "requestSuccess" /\ ~disabled') =>
        /\ Len(channels') = 1
        /\ loading'
        /\ channels'[1] = queue \o AckBatch(op'.nonAcks)
        /\ queue' = <<>> ]_vars

\* the next batch carries a pending message and the ack of a received one
C9_Witness ==
  /\ op.name = "requestSuccess"
  /\ op.nonAcks # <<>>
  /\ Len(channels) = 1
  /\ Len(channels[1]) >= 2
  /\ \E i \in Uids : InBatch(channels, i)

\* C11: disconnect() emits 'disconnected' exactly if the client was connected
\* and leaves the client disabled; on a client that is disabled already (no
\* connect() since the last disconnect()) it, like every step but connect(),
\* changes none of disabled, connected, id, loading and request and emits
\* no 'disconnected'.
C11_DisconnectIdempotent ==
  [][ /\ op'.name = "disconnect" =>
           /\ Has(emitted', "disconnected") <=> connected
           /\ disabled' /\ ~connected' /\ ~loading' /\ ~request'
      /\ (disabled /\ op'.name # "connect") =>
           /\ << disabled', connected', id', loading', request' >>
                = << disabled, connected, id, loading, request >>
           /\ ~Has(emitted', "disconnected") ]_vars

\* a disconnect() that found nothing to do, after a disconnect() that had
\* emitted 'disconnected' and stopped the Multiplexer since the last success
C11_Witness ==
  /\ op.name = "disconnect"
  /\ emitted = <<>>
  /\ disabled
  /\ sinceSuccess
  /\ ~muxStarted
  /\ id = NoId

\* C13: whatever the application's handlers and callbacks throw while a
\* successful response is processed, the backoff is reset, the ack of every
\* non-ack message of the response is enqueued behind what was pending, and
\* the next request is opened with that batch.
C13_FailureIsolation ==
  [][ op'.name = "requestSuccess" =>
        LET next == queue \o AckBatch(op'.nonAcks)
        IN /\ attempts' = 0
           /\ IF disabled' THEN queue' = next
              ELSE channels' = <<next>> /\ loading' /\ queue' = <<>> ]_vars

\* C14: a drain notification that finds a request in flight on an enabled
\* client aborts it and leaves exactly one request in flight, carrying the
\* drained batch; nothing of the batch is in the Multiplexer afterwards and
\* no message of send() is in two places.
C14_DrainReplacesRequest ==
  [][ (op'.name = "drain" /\ request /\ ~disabled) =>
        /\ channels' = <<queue>>
        /\ loading' /\ request'
        /\ queue' = <<>>
        /\ \A i \in Uids :
             /\ Count(queue', i) + CountIn(channels', i) <= 1
             /\ InBatch(channels, i) => fate'[i] = "aborted" ]_vars

\* the request opened by onDrain carries message 1 and the Multiplexer is
\* empty
C14_Witness ==
  /\ op.name = "drain"
  /\ ~disabled
  /\ request
  /\ queue = <<>>
  /\ InBatch(channels, 1)

\* C15: an enabled client always has a request in flight or a reopen timer
\* pending, and a pending reopen ends: the timer fires, whatever the delay
\* was, clears reopening and opens a request unless disconnect() disabled
\* the client meanwhile.
C15_RetriesContinue ==
  /\ [](~disabled => (loading \/ reopening))
  /\ [](reopening <=> reopenTimers = 1)
  /\ reopening ~> (~reopening /\ (disabled \/ (loading /\ Len(channels) = 1)))

\* a request is in flight again after failures that took the backoff to its
\* last step
C15_Witness ==
  /\ ~reopening
  /\ reopenTimers = 0
  /\ loading
  /\ Len(channels) = 1
  /\ attempts = MaxAttempts
  /\ ~disabled
  /\ ~connected

\* C16: a valid send() with a callback on a client that is not connected
\* or is reopening starts no ack timer and leaves its waiter deferred; on a
\* connected client that is not reopening it registers the waiter at once.
\* The next successful response registers every deferred waiter, once, and
\* nothing else does; a deferred waiter has no timer and its callback has not
\* been invoked.
C16_DeferredAckRegistration ==
  [][ /\ op'.name = "send" =>
           IF ~(op'.valid /\ op'.cb)
           THEN /\ deferred' = deferred /\ registered' = registered
                /\ ackTimers' = ackTimers
           ELSE IF ~connected \/ reopening
           THEN /\ deferred' = deferred \cup {nextUid'}
                /\ registered' = registered
                /\ ackTimers' = ackTimers /\ listening' = listening
           ELSE /\ deferred' = deferred
                /\ registered' = registered \cup {nextUid'}
                /\ ackTimers' = ackTimers \cup {nextUid'}
                /\ listening' = listening \cup {nextUid'}
      /\ op'.name = "requestSuccess" =>
           /\ deferred' = {}
           /\ registered' = registered \cup deferred
           /\ \A i \in deferred : i \in ackTimers' \/ cbOk'[i] = 1
      /\ op'.name \notin {"send", "requestSuccess"} =>
           deferred' = deferred /\ registered' = registered
      /\ \A i \in deferred' :
           /\ i \notin registered' /\ i \notin ackTimers'
           /\ i \notin listening'
           /\ cbOk'[i] + cbErr'[i] = 0 ]_vars

\* a send() with a callback on a connected client during a reopen delay left
\* its waiter deferred
C16_Witness ==
  /\ op.name = "send"
  /\ op.cb
  /\ connected
  /\ reopening
  /\ deferred = {1}
  /\ ackTimers = {}

\* the acks a batch of inbound messages asks for: one for each message that
\* is not an ack, with its id, in array order
ExpectedAcks(ms) ==
  LET f == SelectSeq(ms, LAMBDA m : m.type # "ack")
  IN [k \in 1..Len(f) |-> [type |-> "ack", id |-> f[k].id, data |-> FALSE]]

\* the events a batch of inbound messages is announced with, in array order
RECURSIVE ExpectedEvents(_)
ExpectedEvents(ms) ==
  IF ms = <<>> THEN <<>>
  ELSE <<"message">>
         \o (IF Head(ms).type = "data" /\ Head(ms).data THEN <<"data">>
             ELSE <<>>)
         \o ExpectedEvents(Tail(ms))

Kept(m, q, chs) ==
  \/ \E j \in 1..Len(q) : q[j] = m
  \/ \E b \in 1..Len(chs) : \E j \in 1..Len(chs[b]) : chs[b][j] = m

C20_EventsAlternate ==
  /\ altOk
  /\ (lastConn = "connected") <=> connected
  /\ connected => id # NoId

\* a 'success' handler called disconnect() and the same response then
\* connected the client: connected, with 'connected' emitted, and disabled
C20_Witness ==
  /\ reaction["success"] = "disconnect"
  /\ connected
  /\ disabled
  /\ lastConn = "connected"

\* everything the variant's handlers write, but the trace of the last one
VState ==
  << connected, disabled, loading, request, channels, queue, attempts,
     timers, drainSubs, nextUid, listening, ackTimers, cbOk, cbErr,
     valTimers, valCalls, invalidCb >>

\* C12: in the identity-validating variant connect() on a connected or
\* loading client changes nothing and emits nothing; otherwise, with
\* options.id or options.user missing, it emits one 'error' and changes
\* nothing: the client is and stays disabled, without drain subscription and
\* without request; with both present it enables the client.
C12_ConnectValidatesIdentity ==
  [][ op'.name = "connect" =>
        IF connected \/ loading
        THEN VState' = VState /\ emitted' = <<>>
        ELSE IF ~options.id \/ ~options.user
        THEN /\ VState' = VState
             /\ emitted' = <<"error">>
             /\ disabled' /\ drainSubs' = 0
             /\ ~loading' /\ ~request' /\ channels' = <<>>
        ELSE ~disabled' /\ drainSubs' > 0 /\ loading' ]_vars

\* connect() without options.user on a client holding a message: the error
\* event, and the client still disabled
C12_Witness ==
  /\ op.name = "connect"
  /\ options.id
  /\ ~options.user
  /\ emitted = <<"error">>
  /\ disabled
  /\ queue # <<>>

\* C18: in the directed-message variant every message of type 'user' that
\* send() put into the Multiplexer, wherever it is now (the Multiplexer, a
\* request in flight or a reopen timer), has its data and its recipient.
C18_UserMessagesComplete ==
  LET all == queue \o Flat(channels) \o Flat(timers)
  IN \A k \in 1..Len(all) :
       all[k].type = "user" => all[k].data /\ all[k].recipient

====
